---- MODULE Spec2Model ----
(***************************************************************************)
(* Model of src/week2/tower_defense_game.py: Enemy, Tower and Game.        *)
(* Coordinates, velocities, life, attack power and attack range are the    *)
(* Python ints the program constructs its objects with.                    *)
(* The pagination loops of the crawlers (collect_all_dsaa31_data.py,       *)
(* Pchome_complete_scraper.py, get_product_reviews.py) are modelled next   *)
(* to it, with the remote API as the environment.                          *)
(***************************************************************************)
EXTENDS Integers, Sequences, FiniteSets, TLC

\* ------------------------------------------------------------------ bounds
MaxLife  == 3   \* largest initial life of an enemy of the small boards
MaxPower == 2   \* largest attack_power of the first tower of the small boards
MaxRange == 2   \* largest attack_range of the first tower of the small boards
MaxTurns == 3   \* largest max_turns of the small boards
MaxCalls == 2   \* number of run_game()/run_turn() calls the caller makes
MaxDamage == 3  \* largest damage amount take_damage is examined with
MaxGames == 2   \* number of Game objects the caller constructs, one after another
MaxPages == 2   \* pages of the remote catalogue that can hold products
MaxProds == 2   \* largest number of products on one page

\* ------------------------------------------------------------ constructors
\* Enemy.__init__: alive is always True after construction.
Enemy(name, x, y, dx, dy, life) ==
    [name |-> name, x |-> x, y |-> y, dx |-> dx, dy |-> dy,
     life |-> life, alive |-> TRUE]

\* Tower.__init__
Tower(name, x, y, attack_power, attack_range) ==
    [name |-> name, x |-> x, y |-> y,
     attack_power |-> attack_power, attack_range |-> attack_range]

\* Game.__init__: the shipped board (default life 10, max_turns 10).
DefaultLife == 10
ShippedMaxTurns == 10
ShippedEnemies ==
    << Enemy("E1", -10, 2, 2, -1, DefaultLife),
       Enemy("E2", -8, 0, 3, 1, DefaultLife),
       Enemy("E3", -9, -1, 3, 0, DefaultLife) >>
ShippedTowers ==
    << Tower("T1", -3, 2, 1, 2),
       Tower("T2", -1, -2, 1, 2),
       Tower("T3", 4, 2, 1, 2),
       Tower("T4", 7, 0, 1, 2),
       Tower("A1", 1, 1, 2, 4),
       Tower("A2", 4, -3, 2, 4) >>
ShippedGame ==
    [enemies |-> ShippedEnemies, towers |-> ShippedTowers,
     max_turns |-> ShippedMaxTurns]

\* Small boards built with the same constructors: two enemies crossing two
\* towers, so that the range boundary, overkill and kills by an earlier tower
\* all occur within a few turns.
SmallGames ==
    { [enemies |-> << Enemy("E1", -2, 0, 1, 0, l1),
                      Enemy("E2", 1, 2, 0, -1, l2) >>,
       towers  |-> << Tower("T1", 0, 0, p1, r1),
                      Tower("T2", 1, 0, 1, 1) >>,
       max_turns |-> m] :
        l1 \in 1..MaxLife, l2 \in 1..MaxLife,
        p1 \in 0..MaxPower, r1 \in 0..MaxRange, m \in 0..MaxTurns }

\* Boards of the documented scenarios, built with the same constructors.
\* One enemy walking past one tower of power 5.
Scenario1 ==
    [enemies |-> << Enemy("E1", 0, 0, 1, 0, DefaultLife) >>,
     towers  |-> << Tower("T1", 1, 0, 5, 2) >>,
     max_turns |-> 2]

\* Two towers of power 6 with one enemy in range of both.
Scenario2 ==
    [enemies |-> << Enemy("E1", 0, 0, 1, 0, DefaultLife) >>,
     towers  |-> << Tower("T1", 1, 0, 6, 2), Tower("T2", 1, 1, 6, 2) >>,
     max_turns |-> 1]

Games == {ShippedGame, Scenario1, Scenario2} \cup SmallGames

\* Tower.__init__ stores whatever numbers it is given: the small boards with
\* a first tower of any attack_power and attack_range from -1 up.
AnyTowerGames ==
    { [enemies |-> << Enemy("E1", -2, 0, 1, 0, l1),
                      Enemy("E2", 1, 2, 0, -1, l2) >>,
       towers  |-> << Tower("T1", 0, 0, p1, r1),
                      Tower("T2", 1, 0, 1, 1) >>,
       max_turns |-> m] :
        l1 \in 1..MaxLife, l2 \in 1..MaxLife,
        p1 \in (-1)..MaxPower, r1 \in (-1)..MaxRange, m \in 1..MaxTurns }

\* ------------------------------------------------------------------- state
VARIABLES
    enemies,       \* Game.enemies: sequence of Enemy objects
    towers,        \* Game.towers: sequence of Tower objects
    current_turn,  \* Game.current_turn
    max_turns,     \* Game.max_turns
    pc,            \* position inside run_turn: "idle", "move", "attack", "report"
    e_idx,         \* index of the enemy the current loop is visiting
    t_idx,         \* index of the tower the attack phase is visiting
    attacked,      \* per tower: attacked_enemies of its attack() call this turn
    mode,          \* "run_game" while run_game is on the stack, else "none"
    remaining,     \* iterations left of run_game's range(max_turns) loop
    calls,         \* calls made so far by the caller
    returned,      \* TRUE right after run_game returned
    gameStart,     \* current_turn when run_game was called
    turnsRun,      \* run_turn calls made by the current/last run_game
    initial,       \* the enemies as constructed
    turnStart,     \* the enemies when the current/last run_turn started
    phaseStart,    \* the enemies when the current/last attack phase started
    callStart,     \* the enemies when the current/last Tower.attack started
    last,          \* the last can_attack evaluation of an attack loop
    log,           \* what the report phases of this Game printed, one per turn
    prevLog,       \* log of the Game constructed before this one
    games,         \* Game objects constructed so far
    crawler,       \* the crawl function that is running, "none" if none is
    c_pc,          \* position in its loop: "page", "review" or "done"
    page,          \* the crawler's page counter
    pending,       \* products of the fetched page not yet processed
    all_products,  \* the crawler's all_products list
    reqs           \* every HTTP request made so far, with its outcome

gvars == << enemies, towers, current_turn, max_turns, pc, e_idx, t_idx,
           attacked, mode, remaining, calls, returned, gameStart, turnsRun,
           initial, turnStart, phaseStart, callStart, last,
           log, prevLog, games >>

cvars == << crawler, c_pc, page, pending, all_products, reqs >>

vars == << gvars, cvars >>

\* ------------------------------------------------------------------- Enemy
\* Enemy.is_alive
is_alive(e) == e.alive

\* move with "self.dx += self.dx" typed for "self.x += self.dx".
move_typo(e) ==
    IF e.alive THEN [e EXCEPT !.dx = @ + e.dx, !.y = @ + e.dy] ELSE e

\* Enemy.move
move(e) ==
    IF e.alive THEN [e EXCEPT !.x = @ + e.dx, !.y = @ + e.dy] ELSE e

\* take_damage without the clamp "self.life = 0".
take_damage_noclamp(e, damage) ==
    IF e.alive
    THEN LET l == e.life - damage
         IN  IF l <= 0 THEN [e EXCEPT !.life = l, !.alive = FALSE]
                       ELSE [e EXCEPT !.life = l]
    ELSE e

\* take_damage testing "self.life < 0": an enemy at life 0 stays alive.
take_damage_strict(e, damage) ==
    IF e.alive
    THEN LET l == e.life - damage
         IN  IF l < 0 THEN [e EXCEPT !.life = 0, !.alive = FALSE]
                      ELSE [e EXCEPT !.life = l]
    ELSE e

\* take_damage clamping life but forgetting "self.alive = False".
take_damage_noflag(e, damage) ==
    IF e.alive
    THEN LET l == e.life - damage
         IN  IF l <= 0 THEN [e EXCEPT !.life = 0]
                       ELSE [e EXCEPT !.life = l]
    ELSE e

\* take_damage that also pushes the enemy one step back.
take_damage_knockback(e, damage) ==
    IF e.alive
    THEN LET l == e.life - damage
         IN  IF l <= 0 THEN [e EXCEPT !.life = 0, !.alive = FALSE]
                       ELSE [e EXCEPT !.life = l, !.x = @ - e.dx,
                                      !.y = @ - e.dy]
    ELSE e

\* Enemy.take_damage
take_damage(e, damage) ==
    IF e.alive
    THEN LET l == e.life - damage
         IN  IF l <= 0 THEN [e EXCEPT !.life = 0, !.alive = FALSE]
                       ELSE [e EXCEPT !.life = l]
    ELSE e

\* ------------------------------------------------------------------- Tower
\* math.sqrt on a non-negative int: the result lies in [floor, floor+1) and
\* equals floor exactly when the argument is a perfect square.
ISqrt(n) == CHOOSE k \in 0..n : k * k <= n /\ (k + 1) * (k + 1) > n
Sqrt(n) == [floor |-> ISqrt(n), exact |-> ISqrt(n) * ISqrt(n) = n]

\* distance_to dropping the x term.
distance_to_yonly(t, e) == Sqrt((t.y - e.y) * (t.y - e.y))

\* Tower.distance_to
distance_to(t, e) ==
    Sqrt((t.x - e.x) * (t.x - e.x) + (t.y - e.y) * (t.y - e.y))

\* Point.__init__ (geometry_task1.py)
Point(x, y) == [x |-> x, y |-> y]

\* The points geometry_task1.main constructs.
GeometryPoints ==
    { Point(2, 4), Point(-6, 1), Point(2, 2), Point(-6, -1), Point(-1, 6),
      Point(-4, -4), Point(6, 3), Point(8, 1), Point(2, 0), Point(5, -1),
      Point(4, -4), Point(1, -2) }

\* Point.distance_to forgetting to subtract other.y.
point_distance_to_self_y(a, b) ==
    Sqrt((a.x - b.x) * (a.x - b.x) + a.y * a.y)

\* Point.distance_to (geometry_task1.py)
point_distance_to(a, b) ==
    Sqrt((a.x - b.x) * (a.x - b.x) + (a.y - b.y) * (a.y - b.y))

\* Exclusive range boundary: "<" instead of "<=".
FloatLt(d, r) == d.floor < r

\* float <= int comparison of can_attack
FloatLe(d, r) == d.floor < r \/ (d.floor = r /\ d.exact)

\* can_attack without the is_alive() test.
can_attack_dead(t, e) == FloatLe(distance_to(t, e), t.attack_range)

\* Tower.can_attack
can_attack(t, e) == is_alive(e) /\ FloatLe(distance_to(t, e), t.attack_range)

\* ------------------------------------------------------------------- Init
NoEval == [t |-> 0, e |-> 0, can |-> FALSE, pre |-> Enemy("", 0, 0, 0, 0, 0)]

GameInitFrom(boards) ==
    \E g \in boards :
        /\ enemies = g.enemies
        /\ towers = g.towers
        /\ max_turns = g.max_turns
        /\ current_turn = 0
        /\ pc = "idle"
        /\ e_idx = 0
        /\ t_idx = 0
        /\ attacked = [t \in 1..Len(g.towers) |-> << >>]
        /\ mode = "none"
        /\ remaining = 0
        /\ calls = 0
        /\ returned = FALSE
        /\ gameStart = 0
        /\ turnsRun = 0
        /\ initial = g.enemies
        /\ turnStart = g.enemies
        /\ phaseStart = g.enemies
        /\ callStart = g.enemies
        /\ last = NoEval
        /\ log = << >>
        /\ prevLog = << >>
        /\ games = 1

\* No crawler is running.
CrawlOff ==
    /\ crawler = "none"
    /\ c_pc = "done"
    /\ page = 1
    /\ pending = << >>
    /\ all_products = << >>
    /\ reqs = << >>

InitFrom(boards) == GameInitFrom(boards) /\ CrawlOff

Init == InitFrom(Games)

\* ------------------------------------------------- positions inside run_turn
MoveAt(i) == [pc |-> "move", e |-> i, t |-> 0]
AttackAt(t, i) == [pc |-> "attack", e |-> i, t |-> t]
ReportAt == [pc |-> "report", e |-> 0, t |-> 0]

\* Entering "for tower in self.towers: tower.attack(self.enemies)".
AttackEntry ==
    IF Len(towers) = 0 \/ Len(enemies) = 0 THEN ReportAt ELSE AttackAt(1, 1)

\* Entering "for enemy in self.enemies".
MoveEntry == IF Len(enemies) = 0 THEN AttackEntry ELSE MoveAt(1)

\* The attack loop nested in the movement loop: towers fire after the first
\* enemy has moved.
AfterMoveInterleaved(i) == AttackEntry

\* The movement loop runs over every enemy before the attack loop starts.
AfterMove(i) == IF i < Len(enemies) THEN MoveAt(i + 1) ELSE AttackEntry

\* Tower.attack visits every enemy; run_turn then goes to the next tower.
AfterVisit(t, i) ==
    IF i < Len(enemies) THEN AttackAt(t, i + 1)
    ELSE IF t < Len(towers) THEN AttackAt(t + 1, 1)
    ELSE ReportAt

GoTo(p) == pc' = p.pc /\ e_idx' = p.e /\ t_idx' = p.t

\* History: the enemies at the start of the attack phase.
Mark(p) ==
    phaseStart' = IF p.pc = "attack" /\ pc # "attack"
                  THEN enemies' ELSE phaseStart

\* ---------------------------------------------------------------- run_turn
\* First statement of run_turn: the counter is incremented unconditionally.
BeginTurn ==
    /\ current_turn' = current_turn + 1
    /\ attacked' = [t \in 1..Len(towers) |-> << >>]
    /\ turnStart' = enemies
    /\ enemies' = enemies
    /\ GoTo(MoveEntry)
    /\ Mark(MoveEntry)
    /\ UNCHANGED << towers, max_turns, initial, callStart, last,
                    log, prevLog, games,
                    cvars >>

\* The movement loop adding the velocity itself, for dead enemies too.
MoveStepAll(e) == [e EXCEPT !.x = @ + e.dx, !.y = @ + e.dy]

\* The movement loop re-deriving alive from life with ">=": an enemy at
\* life 0 comes back.
MoveStepDerived(e) == move([e EXCEPT !.alive = (e.life >= 0)])

\* Body of the movement loop for one enemy.
MoveStep(e) == IF is_alive(e) THEN move(e) ELSE e

run_turn_move ==
    /\ pc = "move"
    /\ enemies' = [enemies EXCEPT ![e_idx] = MoveStep(@)]
    /\ GoTo(AfterMove(e_idx))
    /\ Mark(AfterMove(e_idx))
    /\ UNCHANGED << towers, current_turn, max_turns, attacked, mode,
                    remaining, calls, returned, gameStart, turnsRun,
                    initial, turnStart, callStart, last, log, prevLog,
                    games,
                    cvars >>

\* Tower.attack stopping at its first target: at most one enemy per call.
run_turn_attack_single ==
    /\ pc = "attack"
    /\ LET t == towers[t_idx]
           e == enemies[e_idx]
           can == can_attack(t, e) /\ attacked[t_idx] = << >>
       IN  /\ enemies' = IF can
                          THEN [enemies EXCEPT
                                   ![e_idx] = take_damage(e, t.attack_power)]
                          ELSE enemies
           /\ attacked' = IF can
                           THEN [attacked EXCEPT
                                    ![t_idx] = Append(@, e.name)]
                           ELSE attacked
           /\ last' = [t |-> t_idx, e |-> e_idx, can |-> can, pre |-> e]
    /\ callStart' = IF e_idx = 1 THEN enemies ELSE callStart
    /\ GoTo(AfterVisit(t_idx, e_idx))
    /\ Mark(AfterVisit(t_idx, e_idx))
    /\ UNCHANGED << towers, current_turn, max_turns, mode, remaining, calls,
                    returned, gameStart, turnsRun, initial, turnStart,
                    log, prevLog, games,
                    cvars >>

\* Body of Tower.attack's loop for one enemy, inside run_turn's tower loop.
run_turn_attack ==
    /\ pc = "attack"
    /\ LET t == towers[t_idx]
           e == enemies[e_idx]
           can == can_attack(t, e)
       IN  /\ enemies' = IF can
                          THEN [enemies EXCEPT
                                   ![e_idx] = take_damage(e, t.attack_power)]
                          ELSE enemies
           /\ attacked' = IF can
                           THEN [attacked EXCEPT
                                    ![t_idx] = Append(@, e.name)]
                           ELSE attacked
           /\ last' = [t |-> t_idx, e |-> e_idx, can |-> can, pre |-> e]
    /\ callStart' = IF e_idx = 1 THEN enemies ELSE callStart
    /\ GoTo(AfterVisit(t_idx, e_idx))
    /\ Mark(AfterVisit(t_idx, e_idx))
    /\ UNCHANGED << towers, current_turn, max_turns, mode, remaining, calls,
                    returned, gameStart, turnsRun, initial, turnStart,
                    log, prevLog, games,
                    cvars >>

\* What run_turn prints for a turn: the turn number, each tower's attacked
\* list, and each enemy's name, position, life and status.
Status(e) == [name |-> e.name, x |-> e.x, y |-> e.y,
              life |-> e.life, alive |-> is_alive(e)]
Snapshot ==
    [turn |-> current_turn,
     attacked |-> attacked,
     enemies |-> [j \in 1..Len(enemies) |-> Status(enemies[j])]]

\* Third phase: the end-of-turn state is printed; run_turn returns.
run_turn_report ==
    /\ pc = "report"
    /\ log' = Append(log, Snapshot)
    /\ GoTo([pc |-> "idle", e |-> 0, t |-> 0])
    /\ UNCHANGED << enemies, towers, current_turn, max_turns, attacked, mode,
                    remaining, calls, returned, gameStart, turnsRun,
                    initial, turnStart, phaseStart, callStart, last,
                    prevLog, games,
                    cvars >>

\* The caller invokes game.run_turn() directly: there is no guard on
\* current_turn.
run_turn_call ==
    /\ pc = "idle" /\ mode = "none" /\ calls < MaxCalls
    /\ calls' = calls + 1
    /\ returned' = FALSE
    /\ BeginTurn
    /\ UNCHANGED << mode, remaining, gameStart, turnsRun >>

\* ---------------------------------------------------------------- run_game
\* range(n) one iteration short.
RangeLenShort(n) == IF n > 1 THEN n - 1 ELSE 0

\* A loop whose body runs once before the count is tested.
RangeLenAtLeastOne(n) == IF n > 0 THEN n ELSE 1

\* len(range(n))
RangeLen(n) == IF n > 0 THEN n ELSE 0

\* The caller invokes game.run_game(): range(self.max_turns) is evaluated once.
run_game_call ==
    /\ pc = "idle" /\ mode = "none" /\ calls < MaxCalls
    /\ calls' = calls + 1
    /\ mode' = "run_game"
    /\ remaining' = RangeLen(max_turns)
    /\ gameStart' = current_turn
    /\ turnsRun' = 0
    /\ returned' = FALSE
    /\ UNCHANGED << enemies, towers, current_turn, max_turns, pc, e_idx,
                    t_idx, attacked, initial, turnStart, phaseStart,
                    callStart, last, log, prevLog, games,
                    cvars >>

\* The loop stopping as soon as every enemy is dead.
LoopDoneEarly ==
    remaining = 0 \/ \A j \in 1..Len(enemies) : ~enemies[j].alive

\* "for _ in range(self.max_turns)" is exhausted; nothing else ends the loop.
LoopDone == remaining = 0

\* One iteration of "for _ in range(self.max_turns): self.run_turn()".
run_game_loop ==
    /\ pc = "idle" /\ mode = "run_game" /\ ~LoopDone
    /\ remaining' = remaining - 1
    /\ turnsRun' = turnsRun + 1
    /\ BeginTurn
    /\ UNCHANGED << mode, calls, returned, gameStart >>

\* The loop is exhausted: print_results, then run_game returns.
run_game_return ==
    /\ pc = "idle" /\ mode = "run_game" /\ LoopDone
    /\ mode' = "none"
    /\ returned' = TRUE
    /\ UNCHANGED << enemies, towers, current_turn, max_turns, pc, e_idx,
                    t_idx, attacked, remaining, calls, gameStart, turnsRun,
                    initial, turnStart, phaseStart, callStart, last,
                    log, prevLog, games,
                    cvars >>

\* ---------------------------------------------------------------- second run
\* A Game that keeps the Enemy objects of the previous Game instead of
\* constructing new ones.
SharedEnemies == enemies

\* Game.__init__ constructs new Enemy objects from the same literals.
FreshEnemies == initial

\* The caller constructs another Game from the same definitions, keeping
\* what the previous one printed.
new_game ==
    /\ pc = "idle" /\ mode = "none" /\ games < MaxGames
    /\ games' = games + 1
    /\ prevLog' = log
    /\ log' = << >>
    /\ enemies' = FreshEnemies
    /\ current_turn' = 0
    /\ attacked' = [t \in 1..Len(towers) |-> << >>]
    /\ calls' = 0
    /\ returned' = FALSE
    /\ gameStart' = 0
    /\ turnsRun' = 0
    /\ turnStart' = enemies'
    /\ phaseStart' = enemies'
    /\ callStart' = enemies'
    /\ last' = NoEval
    /\ UNCHANGED << towers, max_turns, pc, e_idx, t_idx, mode, remaining,
                    initial,
                    cvars >>

Next ==
    \/ run_turn_call
    \/ run_game_call
    \/ run_game_loop
    \/ run_game_return
    \/ run_turn_move
    \/ run_turn_attack
    \/ run_turn_report

Spec == Init /\ [][Next]_vars


\* The interpreter keeps executing a call that is on the stack; the caller
\* is free to make its next call or not.
Step ==
    \/ run_game_loop
    \/ run_game_return
    \/ run_turn_move
    \/ run_turn_attack
    \/ run_turn_report

FairSpec == Spec /\ WF_vars(Step)

\* The same Game code on boards whose towers were constructed with any
\* numbers.
AnyTowerInit == InitFrom(AnyTowerGames)

AnyTowerSpec == AnyTowerInit /\ [][Next]_vars

\* Two Games constructed one after the other from the same definitions.
NextTwice == Next \/ new_game

TwoRunsSpec == Init /\ [][NextTwice]_vars

\* ---------------------------------------------------------------- crawlers
\* The crawl functions: collect_all_dsaa31_data (the same loop in
\* collect_all_dsaa31_data.py and Pchome_complete_scraper.py) and
\* scrape_all_products (get_product_reviews.py).
Collectors == {"collect_all_dsaa31_data", "Pchome_complete_scraper"}
Crawlers == Collectors \cup {"scrape_all_products"}

\* What the remote API can answer to the request for page p: an error (the
\* request, raise_for_status or json() raises), or a page with some or no
\* products.  The catalogue is finite.
PageResponses(p) ==
    {[status |-> "fail", count |-> 0]}
       \cup {[status |-> "ok", count |-> n] :
                n \in 0..(IF p <= MaxPages THEN MaxProds ELSE 0)}

\* The products data.get('Prods') holds for page p.
Prods(p, n) == [k \in 1..n |-> << p, k >>]

\* get_product_reviews: the values of a successful answer, and the
\* "return 0, 0" of its except branch.
ReviewOk == [avg_rating |-> 5, total_reviews |-> 1]
ReviewDefault == [avg_rating |-> 0, total_reviews |-> 0]

\* An entry of all_products.
ProductInfo(id, review) ==
    [id |-> id, avg_rating |-> review.avg_rating,
     total_reviews |-> review.total_reviews]
RawProduct(id) == ProductInfo(id, ReviewDefault)

\* A loop that asks for the same page again after an error.
PageFailureRetries == "page"

\* The except branches of the page loops end in "break".
AfterPageFailure == "done"

CrawlInit ==
    /\ GameInitFrom({ShippedGame})
    /\ crawler \in Crawlers
    /\ c_pc = "page"
    /\ page = 1
    /\ pending = << >>
    /\ all_products = << >>
    /\ reqs = << >>

\* One iteration of "while True": the request for the current page.
crawl_page ==
    /\ c_pc = "page"
    /\ \E r \in PageResponses(page) :
          /\ reqs' = Append(reqs, [kind |-> "page", page |-> page,
                                   id |-> << page, 0 >>,
                                   status |-> r.status, count |-> r.count])
          /\ IF r.status = "fail"
             THEN /\ c_pc' = AfterPageFailure
                  /\ UNCHANGED << page, pending, all_products >>
             ELSE IF r.count = 0
             THEN /\ c_pc' = "done"
                  /\ UNCHANGED << page, pending, all_products >>
             ELSE IF crawler \in Collectors
             THEN /\ all_products' =
                        all_products
                           \o [k \in 1..r.count |->
                                  RawProduct(Prods(page, r.count)[k])]
                  /\ page' = page + 1
                  /\ UNCHANGED << c_pc, pending >>
             ELSE /\ pending' = Prods(page, r.count)
                  /\ c_pc' = "review"
                  /\ UNCHANGED << page, all_products >>
    /\ UNCHANGED << crawler, gvars >>

\* scrape_all_products handles one product of the page: get_product_reviews
\* makes its request and swallows a failure; the product is appended.
crawl_review ==
    /\ c_pc = "review"
    /\ \E ok \in BOOLEAN :
          /\ reqs' = Append(reqs, [kind |-> "review", page |-> page,
                                   id |-> Head(pending),
                                   status |-> IF ok THEN "ok" ELSE "fail",
                                   count |-> 0])
          /\ all_products' =
                Append(all_products,
                       ProductInfo(Head(pending),
                                   IF ok THEN ReviewOk ELSE ReviewDefault))
    /\ pending' = Tail(pending)
    /\ IF Tail(pending) = << >>
       THEN page' = page + 1 /\ c_pc' = "page"
       ELSE UNCHANGED << page, c_pc >>
    /\ UNCHANGED << crawler, gvars >>

CrawlNext ==
    \/ crawl_page
    \/ crawl_review

CrawlSpec == CrawlInit /\ [][CrawlNext]_vars

\* ------------------------------------------------------- claim vocabulary
Max(a, b) == IF a >= b THEN a ELSE b

EnemyIds == 1..Len(enemies)
TowerIds == 1..Len(towers)

\* Squared Euclidean distance between a tower and an enemy.
D2(t, e) == (t.x - e.x) * (t.x - e.x) + (t.y - e.y) * (t.y - e.y)

\* Euclidean distance <= attack_range, on exact integers.
Within(t, e) ==
    t.attack_range >= 0 /\ D2(t, e) <= t.attack_range * t.attack_range

\* The state is the one right after the can_attack evaluation that last
\* records.
JustVisited ==
    /\ last.t > 0
    /\ << pc, e_idx, t_idx >> =
         LET p == AfterVisit(last.t, last.e) IN << p.pc, p.e, p.t >>

\* -------------------------------------------------------------------- C1
\* C1: the life of every enemy always lies in [0, initial life] and never
\* increases from one state to the next.
LifeWithinBoundsAndNonIncreasing ==
    /\ [](\A j \in EnemyIds :
            enemies[j].life >= 0 /\ enemies[j].life <= initial[j].life)
    /\ [][\A j \in EnemyIds : enemies'[j].life <= enemies[j].life]_vars

\* An overkill hit has just been clamped: life - damage was negative and the
\* enemy now has life 0.
OverkillClamped ==
    /\ JustVisited /\ last.can
    /\ last.pre.life - towers[last.t].attack_power < 0
    /\ enemies[last.e].life = 0

\* -------------------------------------------------------------------- C2
\* C2: monotonic death: an enemy whose alive flag is false keeps it false
\* in every later state.
DeadStaysDead ==
    [][\A j \in EnemyIds : ~enemies[j].alive => ~enemies'[j].alive]_vars

\* A dead enemy has gone through the movement loop of a later turn.
DeadEnemyPassedMovement ==
    \E j \in EnemyIds :
        /\ ~turnStart[j].alive
        /\ pc = "move" /\ e_idx > j

\* -------------------------------------------------------------------- C3
\* The position an enemy has after the movement phase of the current turn.
PostMoveX(j) ==
    turnStart[j].x + (IF turnStart[j].alive THEN turnStart[j].dx ELSE 0)
PostMoveY(j) ==
    turnStart[j].y + (IF turnStart[j].alive THEN turnStart[j].dy ELSE 0)

\* C3: during the movement phase no tower has attacked yet, and once the
\* attack phase has started every enemy stands at its post-movement position
\* of this turn and every range check was made on such a position.
MovementCompletesBeforeAttack ==
    /\ pc = "move" =>
         /\ \A t \in TowerIds : attacked[t] = << >>
         /\ \A j \in EnemyIds : enemies[j].life = turnStart[j].life
    /\ pc \in {"attack", "report"} =>
         \A j \in EnemyIds :
            enemies[j].x = PostMoveX(j) /\ enemies[j].y = PostMoveY(j)
    /\ JustVisited =>
         /\ last.pre.x = PostMoveX(last.e)
         /\ last.pre.y = PostMoveY(last.e)

\* The first tower evaluates the first enemy while a later enemy has moved
\* in this turn.
AttackAfterLaterEnemyMoved ==
    /\ JustVisited /\ last.t = 1 /\ last.e = 1
    /\ \E j \in EnemyIds :
          j > 1 /\ turnStart[j].alive
                /\ << enemies[j].x, enemies[j].y >>
                     # << turnStart[j].x, turnStart[j].y >>

\* -------------------------------------------------------------------- C4
\* Tower t has already evaluated enemy j in the current attack phase.
Visited(t, j) ==
    CASE pc = "attack" -> t < t_idx \/ (t = t_idx /\ j < e_idx)
      [] pc = "move" -> FALSE
      [] OTHER -> current_turn > 0

\* Total attack power of the towers among the first n that have enemy j in
\* range (positions are those of the start of the attack phase).
RECURSIVE PowerInRange(_, _)
PowerInRange(n, j) ==
    IF n = 0 THEN 0
    ELSE PowerInRange(n - 1, j)
         + (IF Within(towers[n], phaseStart[j])
            THEN towers[n].attack_power ELSE 0)

\* The number of towers that have evaluated enemy j in this attack phase.
VisitedBy(j) == Cardinality({t \in TowerIds : Visited(t, j)})

\* C4: towers act in list order on shared state: a tower hits an enemy
\* exactly when the enemy is in its range and the damage of the earlier
\* towers of the same phase has left it alive, and the enemy's life is its
\* life at the start of the phase minus the damage of the towers that have
\* acted so far, floored at 0.
TowersActSequentially ==
    /\ \A t \in TowerIds : \A j \in EnemyIds :
          Visited(t, j) =>
             ( (\E k \in 1..Len(attacked[t]) :
                   attacked[t][k] = enemies[j].name)
               <=> /\ Within(towers[t], phaseStart[j])
                   /\ phaseStart[j].alive
                   /\ phaseStart[j].life - PowerInRange(t - 1, j) > 0 )
    /\ \A j \in EnemyIds :
          pc # "move" =>
             enemies[j].life =
                Max(0, phaseStart[j].life - PowerInRange(VisitedBy(j), j))

\* A later tower has an enemy in range that an earlier tower killed in this
\* same phase, and did not attack it.
KilledEarlierSkippedLater ==
    /\ JustVisited /\ last.t > 1 /\ ~last.can
    /\ Within(towers[last.t], last.pre)
    /\ phaseStart[last.e].alive

\* -------------------------------------------------------------------- C5
\* C5: on a Game with a positive max_turns the turn counter never exceeds
\* max_turns, whatever run_turn and run_game calls are made: a call made once
\* the counter equals max_turns executes no turn.
TurnCounterNeverExceedsMaxTurns ==
    max_turns > 0 => current_turn <= max_turns

\* -------------------------------------------------------------------- C6
\* C6: run_game runs run_turn once per iteration of range(max_turns): the
\* counter moves by at most 1 per step, while run_game is on the stack it
\* equals its value at the call plus the turns run so far, and when run_game
\* returns exactly max_turns turns were run; on a fresh Game (counter 0 at
\* the call) the counter then equals max_turns.  Every run_game call returns.
RunGameRunsExactlyMaxTurns ==
    /\ [][current_turn' \in {current_turn, current_turn + 1}]_vars
    /\ [](mode = "run_game" =>
            /\ current_turn = gameStart + turnsRun
            /\ turnsRun + remaining = max_turns)
    /\ [](returned =>
            /\ turnsRun = max_turns
            /\ gameStart = 0 => current_turn = max_turns)
    /\ (mode = "run_game") ~> returned

\* run_game has returned on a Game that was fresh when it was called, after
\* running at least two turns.
FreshRunGameReturned ==
    returned /\ gameStart = 0 /\ turnsRun >= 2

\* -------------------------------------------------------------------- C7
\* C7: can_attack is true exactly for an alive enemy whose Euclidean
\* distance to the tower is <= attack_range, for every tower and enemy of
\* every reachable state and for every evaluation an attack loop made.
CanAttackIffAliveAndWithinRange ==
    /\ \A t \in TowerIds : \A j \in EnemyIds :
          can_attack(towers[t], enemies[j])
             <=> (enemies[j].alive /\ Within(towers[t], enemies[j]))
    /\ last.t > 0 =>
          (last.can <=> (last.pre.alive /\ Within(towers[last.t], last.pre)))

\* An alive enemy at distance exactly attack_range > 0 has just been found
\* attackable, while a dead enemy stands on a tower's own coordinates.
BoundaryHitAndDeadAtDistanceZero ==
    /\ JustVisited /\ last.can
    /\ towers[last.t].attack_range > 0
    /\ D2(towers[last.t], last.pre)
         = towers[last.t].attack_range * towers[last.t].attack_range
    /\ \E t \in TowerIds : \E j \in EnemyIds :
          ~enemies[j].alive /\ D2(towers[t], enemies[j]) = 0

\* -------------------------------------------------------------------- C8
\* C8: take_damage(amount), amount >= 0: an alive enemy gets life
\* max(life - amount, 0) and is dead exactly when life - amount <= 0, nothing
\* else changes; a dead enemy has life 0 and is left unchanged.  This holds
\* for every enemy of every reachable state and for every hit a tower made.
TakeDamageEffect(e, amount, r) ==
    IF e.alive
    THEN /\ r.life = Max(e.life - amount, 0)
         /\ r.alive = ~(e.life - amount <= 0)
         /\ r = [e EXCEPT !.life = r.life, !.alive = r.alive]
    ELSE r = e /\ r.life = 0 /\ ~r.alive

TakeDamageClampsAndKills ==
    /\ \A j \in EnemyIds : \A amount \in 0..MaxDamage :
          TakeDamageEffect(enemies[j], amount,
                           take_damage(enemies[j], amount))
    /\ (JustVisited /\ last.can) =>
          TakeDamageEffect(last.pre, towers[last.t].attack_power,
                           enemies[last.e])

\* A hit has just brought an enemy to exactly life 0, next to an enemy that
\* was already dead.
ExactKillNextToDeadEnemy ==
    /\ JustVisited /\ last.can
    /\ last.pre.life - towers[last.t].attack_power = 0
    /\ ~enemies[last.e].alive
    /\ \E j \in EnemyIds : j # last.e /\ ~enemies[j].alive

\* -------------------------------------------------------------------- C9
\* The enemies a tower can attack, judged on the list as it was when
\* Tower.attack was called.
Attackable(t, e) == e.alive /\ Within(t, e)

RECURSIVE NamesOfAttackable(_, _)
NamesOfAttackable(t, es) ==
    IF es = << >> THEN << >>
    ELSE (IF Attackable(t, Head(es)) THEN << Head(es).name >> ELSE << >>)
         \o NamesOfAttackable(t, Tail(es))

\* Tower.attack has just finished its loop over the enemies.
AttackCallDone == JustVisited /\ last.e = Len(enemies)

\* C9: when Tower.attack returns, every enemy that was attackable has taken
\* attack_power damage exactly once, every other enemy is unchanged, and
\* the returned list is the names of the attackable enemies in list order
\* (empty, with nothing changed, when there is none).
AttackHitsEveryAttackableOnce ==
    AttackCallDone =>
       LET t == towers[last.t] IN
       /\ \A j \in EnemyIds :
             enemies[j] =
                IF Attackable(t, callStart[j])
                THEN [callStart[j] EXCEPT
                        !.life = Max(@ - t.attack_power, 0),
                        !.alive = callStart[j].life - t.attack_power > 0]
                ELSE callStart[j]
       /\ attacked[last.t] = NamesOfAttackable(t, callStart)

\* One Tower.attack call has just hit two enemies.
AttackHitTwoEnemies ==
    AttackCallDone /\ Len(attacked[last.t]) >= 2

\* ------------------------------------------------------------------- C10
\* C10: a dead enemy's position is the same in the next state, whatever
\* step is taken, so the position it died at is its position ever after.
DeadPositionFrozen ==
    [][\A j \in EnemyIds :
          ~enemies[j].alive =>
             enemies'[j].x = enemies[j].x /\ enemies'[j].y = enemies[j].y]_vars

\* An enemy that died in an earlier turn is still where it was when a later
\* turn reaches its report phase.
DeadEnemyAtLaterReport ==
    /\ pc = "report"
    /\ \E j \in EnemyIds : ~turnStart[j].alive /\ initial[j].dx # 0

\* ------------------------------------------------------------------- C11
Min(a, b) == IF a <= b THEN a ELSE b

AllDead == \A j \in EnemyIds : ~enemies[j].alive

\* C12: no early termination: while run_game has iterations left, its next
\* step starts another turn whatever the board looks like, every turn that
\* starts reaches its report phase, and when run_game returns it has printed
\* max_turns turns, also when every enemy was dead before the last of them.
NoEarlyTermination ==
    /\ [][(mode = "run_game" /\ pc = "idle" /\ remaining > 0) =>
             (current_turn' = current_turn + 1 /\ pc' # "idle")]_vars
    /\ [](pc = "idle" => Len(log) = current_turn)
    /\ [](returned => Len(log) - gameStart = max_turns)

\* run_game has returned after running a whole turn that started with every
\* enemy already dead.
TurnRunWithEveryEnemyDead ==
    /\ returned /\ turnsRun >= 2
    /\ \A j \in EnemyIds : ~turnStart[j].alive

\* ------------------------------------------------------------------- C13
\* C13: an engine with an empty enemy list, an empty tower list or a
\* non-positive max_turns is never run: once the caller has made a call,
\* the Game has at least one enemy, at least one tower and max_turns > 0.
OnlyValidEnginesRun ==
    calls > 0 => (Len(enemies) > 0 /\ Len(towers) > 0 /\ max_turns > 0)

\* ------------------------------------------------------------------- C14
\* C14: take_damage is never invoked with a negative amount: every hit a
\* tower makes is made by a tower with attack_power >= 0 and
\* attack_range >= 0.
NoHitByNegativeTower ==
    (JustVisited /\ last.can) =>
        /\ towers[last.t].attack_power >= 0
        /\ towers[last.t].attack_range >= 0

\* ------------------------------------------------------------------- C15
OnBoard(g) == initial = g.enemies /\ towers = g.towers

\* C15: scenario 1 (enemy at (0,0), velocity (1,0), life 10; tower at (1,0),
\* range 2, power 5): turn 1 ends with the enemy at (1,0), life 5, alive;
\* turn 2 ends with it at (2,0), life 0, dead.
Scenario1Outcome ==
    OnBoard(Scenario1) =>
        /\ Len(log) >= 1 =>
              log[1].enemies[1] =
                 [name |-> "E1", x |-> 1, y |-> 0, life |-> 5, alive |-> TRUE]
        /\ Len(log) >= 2 =>
              log[2].enemies[1] =
                 [name |-> "E1", x |-> 2, y |-> 0, life |-> 0, alive |-> FALSE]

\* Scenario 1 has completed its second turn.
Scenario1TwoTurnsDone == OnBoard(Scenario1) /\ Len(log) = 2

\* ------------------------------------------------------------------- C16
\* C16: scenario 2 (two towers of power 6 in range of one enemy of life 10):
\* the first tower leaves life 4, and the attack phase ends with life exactly
\* 0, the enemy dead, and the enemy in the attacked list of both towers.
Scenario2Outcome ==
    OnBoard(Scenario2) =>
        /\ (pc = "attack" /\ t_idx = 2 /\ current_turn = 1) =>
              (enemies[1].life = 4 /\ enemies[1].alive)
        /\ Len(log) >= 1 =>
              /\ log[1].enemies[1].life = 0
              /\ ~log[1].enemies[1].alive
              /\ log[1].attacked = << << "E1" >>, << "E1" >> >>

\* Scenario 2 has completed its first attack phase.
Scenario2PhaseDone == OnBoard(Scenario2) /\ pc = "report" /\ current_turn = 1

\* ------------------------------------------------------------------- C17
Apart(t, e) == << t.x, t.y >> # << e.x, e.y >>

\* C17: a tower with attack_range 0 never hits an enemy that stands anywhere
\* but on the tower's own coordinates: every such range check is false, the
\* enemy is left as it was, and its name is not in that tower's attacked
\* list.
RangeZeroHitsOnlyOnTheSpot ==
    /\ (last.t > 0 /\ towers[last.t].attack_range = 0
          /\ Apart(towers[last.t], last.pre)) => ~last.can
    /\ (JustVisited /\ towers[last.t].attack_range = 0
          /\ Apart(towers[last.t], last.pre)) => enemies[last.e] = last.pre
    /\ \A t \in TowerIds : \A j \in EnemyIds :
          (Visited(t, j) /\ towers[t].attack_range = 0
             /\ Apart(towers[t], enemies[j])) =>
                \A k \in 1..Len(attacked[t]) :
                   attacked[t][k] # enemies[j].name

\* A tower of range 0 has just evaluated an alive enemy on the same row,
\* one step away.
RangeZeroAdjacentEnemy ==
    /\ JustVisited /\ towers[last.t].attack_range = 0
    /\ last.pre.alive /\ last.pre.y = towers[last.t].y
    /\ D2(towers[last.t], last.pre) = 1

\* ------------------------------------------------------------------- C18
\* C18: scenario 4: with max_turns = 0 run_game runs no turn; on a fresh
\* Game nothing was printed for any turn and every enemy is as constructed.
ZeroTurnsRunsNothing ==
    /\ (mode = "run_game" /\ max_turns = 0) =>
          (pc = "idle" /\ current_turn = gameStart)
    /\ (returned /\ max_turns = 0) =>
          /\ turnsRun = 0
          /\ current_turn = gameStart
          /\ gameStart = 0 => (log = << >> /\ enemies = initial)

\* run_game has returned on a fresh Game with max_turns = 0.
ZeroTurnGameReturned == returned /\ max_turns = 0 /\ gameStart = 0

\* ------------------------------------------------------------------- C19
\* C19: in every reachable state an enemy is alive exactly when its life
\* is > 0 (every enemy is constructed with positive life).
AliveIffLifePositive ==
    \A j \in EnemyIds : enemies[j].alive <=> enemies[j].life > 0

\* One enemy is dead at life 0 while another was hit and is still alive.
OneDeadOneWounded ==
    /\ \E j \in EnemyIds : ~enemies[j].alive /\ enemies[j].life = 0
    /\ \E j \in EnemyIds :
          enemies[j].alive /\ enemies[j].life < initial[j].life

\* ------------------------------------------------------------------- C20
\* The positions of the towers and enemies of the current state, as points.
Positions ==
    { Point(towers[t].x, towers[t].y) : t \in TowerIds }
       \cup { Point(enemies[j].x, enemies[j].y) : j \in EnemyIds }

\* C20: distance is symmetric: Tower.distance_to gives the same value from
\* tower to enemy as from enemy to tower, and Point.distance_to gives the
\* same value both ways for the positions on the board and for the points
\* of the geometry script.
DistanceIsSymmetric ==
    /\ \A t \in TowerIds : \A j \in EnemyIds :
          distance_to(towers[t], enemies[j])
             = distance_to(enemies[j], towers[t])
    /\ \A a \in Positions : \A b \in Positions :
          point_distance_to(a, b) = point_distance_to(b, a)
    /\ current_turn = 0 =>
          \A a \in GeometryPoints : \A b \in GeometryPoints :
             point_distance_to(a, b) = point_distance_to(b, a)

\* An enemy has moved off the row and off the column of a tower, so both
\* coordinate differences are non-zero and the distance is not a whole
\* number.
EnemyDiagonalToTower ==
    \E t \in TowerIds : \E j \in EnemyIds :
        /\ pc = "report"
        /\ towers[t].x # enemies[j].x /\ towers[t].y # enemies[j].y
        /\ ~distance_to(towers[t], enemies[j]).exact

\* ------------------------------------------------------------------- C21
Shifted(e) == [e EXCEPT !.x = @ + e.dx, !.y = @ + e.dy]

\* C21: move adds the velocity to the position of an alive enemy and changes
\* nothing else, and leaves a dead enemy as it is; a step of the movement
\* loop changes only the enemy it visits, in that way; no step of the attack
\* or report phase, and no call, changes any enemy's position.
PositionChangesOnlyByMove ==
    /\ [](\A j \in EnemyIds :
            move(enemies[j]) = IF enemies[j].alive THEN Shifted(enemies[j])
                               ELSE enemies[j])
    /\ [][pc = "move" =>
            \A j \in EnemyIds :
               enemies'[j] = IF j = e_idx /\ enemies[j].alive
                             THEN Shifted(enemies[j]) ELSE enemies[j]]_vars
    /\ [][pc # "move" =>
            \A j \in EnemyIds :
               enemies'[j].x = enemies[j].x /\ enemies'[j].y = enemies[j].y]_vars

\* An enemy that moved in this turn has just been hit and survived.
MovedEnemyHitAndAlive ==
    /\ JustVisited /\ last.can /\ enemies[last.e].alive
    /\ enemies[last.e].life < last.pre.life
    /\ << turnStart[last.e].x, turnStart[last.e].y >>
         # << enemies[last.e].x, enemies[last.e].y >>

\* ------------------------------------------------------------------- C22
\* C22: static data never changes: no step changes a tower, and every enemy
\* keeps its name and velocity and its place in the list, which keeps its
\* length (dead enemies stay in it).
StaticDataNeverChanges ==
    /\ [][towers' = towers]_vars
    /\ [](/\ Len(enemies) = Len(initial)
          /\ \A j \in EnemyIds :
                /\ enemies[j].name = initial[j].name
                /\ enemies[j].dx = initial[j].dx
                /\ enemies[j].dy = initial[j].dy)

\* Three turns have been run and a dead enemy is still in the list next to
\* an alive one.
DeadEnemyKeptInList ==
    /\ pc = "idle" /\ current_turn >= 3
    /\ \E j \in EnemyIds : ~enemies[j].alive
    /\ \E j \in EnemyIds : enemies[j].alive

\* ------------------------------------------------------------------- C23
\* C23: the shipped board: run_game on the fresh Game ends with E1 dead at
\* (6,-6) with life 0, killed in turn 8; E2 alive at (22,10) with life 4;
\* E3 dead at (6,-1) with life 0, killed in turn 5.
ShippedGameOutcome ==
    (OnBoard(ShippedGame) /\ returned /\ gameStart = 0) =>
        /\ [j \in EnemyIds |-> Status(enemies[j])] =
              << [name |-> "E1", x |-> 6, y |-> -6, life |-> 0,
                  alive |-> FALSE],
                 [name |-> "E2", x |-> 22, y |-> 10, life |-> 4,
                  alive |-> TRUE],
                 [name |-> "E3", x |-> 6, y |-> -1, life |-> 0,
                  alive |-> FALSE] >>
        /\ log[7].enemies[1].alive /\ ~log[8].enemies[1].alive
        /\ log[4].enemies[3].alive /\ ~log[5].enemies[3].alive

\* run_game has returned on the fresh shipped Game.
ShippedGameReturned ==
    OnBoard(ShippedGame) /\ returned /\ gameStart = 0 /\ Len(log) = 10

\* ------------------------------------------------------------------- C24
IsPage(r) == r.kind = "page"
IsReview(r) == r.kind = "review"
PageReqs == SelectSeq(reqs, IsPage)
ReviewReqs == SelectSeq(reqs, IsReview)

\* The ids of the products of the pages fetched so far, in request order.
RECURSIVE IdsOf(_)
IdsOf(rs) ==
    IF rs = << >> THEN << >>
    ELSE (IF Head(rs).status = "ok" THEN Prods(Head(rs).page, Head(rs).count)
          ELSE << >>) \o IdsOf(Tail(rs))

\* C24 as stated: whatever request fails, it is the last request made and
\* the crawl is over.
AnyFailedRequestEndsCrawl ==
    \A k \in 1..Len(reqs) :
        reqs[k].status = "fail" => (k = Len(reqs) /\ c_pc = "done")

\* C24 amended: pages are requested in the order 1, 2, 3, ...; a page
\* request that fails or returns no products is the last request and ends
\* the crawl; no page and no product is requested twice; when the crawl is
\* over all_products holds exactly the products of the pages fetched before
\* that point, in order.  A failed review request of scrape_all_products is
\* not retried either, but it does not end the crawl: the product is kept
\* with avg_rating 0 and total_reviews 0.
FailedPageEndsCrawlFailedReviewDoesNot ==
    /\ \A k \in 1..Len(PageReqs) : PageReqs[k].page = k
    /\ \A k \in 1..Len(reqs) :
          (IsPage(reqs[k]) /\ (reqs[k].status = "fail" \/ reqs[k].count = 0))
             => (k = Len(reqs) /\ c_pc = "done")
    /\ \A k1 \in 1..Len(reqs) : \A k2 \in 1..Len(reqs) :
          (k1 # k2) => (<< reqs[k1].kind, reqs[k1].id >>
                           # << reqs[k2].kind, reqs[k2].id >>)
    /\ c_pc = "done" =>
          [k \in 1..Len(all_products) |-> all_products[k].id] = IdsOf(PageReqs)
    /\ crawler = "scrape_all_products" =>
          /\ Len(ReviewReqs) = Len(all_products)
          /\ \A k \in 1..Len(ReviewReqs) :
                all_products[k] =
                   ProductInfo(ReviewReqs[k].id,
                               IF ReviewReqs[k].status = "ok"
                               THEN ReviewOk ELSE ReviewDefault)
    /\ crawler \in Collectors =>
          /\ ReviewReqs = << >>
          /\ \A k \in 1..Len(all_products) :
                all_products[k] = RawProduct(all_products[k].id)

\* scrape_all_products is over: a review request failed on page 1, page 2
\* was fetched all the same, and the request for page 3 failed.
CrawlWentOnAfterFailedReview ==
    /\ crawler = "scrape_all_products" /\ c_pc = "done"
    /\ \E k \in 1..Len(reqs) :
          IsReview(reqs[k]) /\ reqs[k].status = "fail" /\ reqs[k].page = 1
    /\ Len(PageReqs) = 3
    /\ reqs[Len(reqs)].status = "fail"
    /\ Len(all_products) >= 2
====
